---- MODULE Spec2Model ----
(***************************************************************************)
(* Model of restic's fuse file (src/src/restic/fuse/file.go) and of its    *)
(* WebDAV backend (src/unnamed/part_000).                                  *)
(*                                                                         *)
(* A byte of a file is named by the chunk it belongs to and its position   *)
(* in that chunk, so a run of bytes is a segment [file, chunk, lo, hi)     *)
(* and a Read result is the sequence of the non-empty segments copied.     *)
(***************************************************************************)
EXTENDS Integers, Sequences, FiniteSets

\* ------------------------------------------------------------ constants
blockSize == 512
defaultBlobSize == 131072

\* -------------------------------------------------------------- bounds
MaxChunks == 2
MaxBufs == 3
MaxIdle == 1
MaxEntries == 2

Files == {1, 2}
Threads == {1, 2}
BufIds == 1..MaxBufs

\* chunk sizes the Blob Source may report: empty, the sizes of the spec's
\* scenarios, one block, and two sizes above the pool's default capacity
ChunkSizes == {0, 50, 100, 512, defaultBlobSize + 1, defaultBlobSize + 2}
SharedChunkSizes == {50, defaultBlobSize + 1}
Offsets == {-1, 0, 90, 100, 150, 151}
Lengths == {0, 30, 200}
SharedOffsets == {0}
SharedLengths == {200}
StaleSize == 200

RECURSIVE SeqsUpTo(_, _)
SeqsUpTo(S, n) ==
  IF n = 0 THEN {<<>>}
  ELSE LET shorter == SeqsUpTo(S, n - 1)
       IN shorter \cup {Append(s, x) : s \in {q \in shorter : Len(q) = n - 1}, x \in S}

Contents == SeqsUpTo(ChunkSizes, MaxChunks)
\* the first file has up to MaxChunks chunks, the others one, which may be
\* larger than every chunk of the first
OtherChunkSizes == {50, defaultBlobSize + 2}
SharedContents(f) ==
  IF f = 1 THEN SeqsUpTo(SharedChunkSizes, MaxChunks) \ {<<>>}
  ELSE SeqsUpTo(OtherChunkSizes, 1) \ {<<>>}

RECURSIVE SumSeq(_)
SumSeq(s) == IF s = <<>> THEN 0 ELSE s[1] + SumSeq(Tail(s))

Min(a, b) == IF a < b THEN a ELSE b

\* --------------------------------------------------------------- state
VARIABLES
  node,      \* node[f]: the Node handed to newFile: Size, Content, and the Size it declared
  created,   \* created[f]: outcome of newFile: st, err, lookups issued, the failing lookup;
             \* short: the file's Blob Source loads one byte less than it looked up;
             \* loads: per chunk, the Loads completed since Create or the last Release
  sizes,     \* f.sizes
  blobs,     \* f.blobs: per chunk a slice [buf, len], NilBlob when nil
  pool,      \* blobPool: how many times each buffer is idle in the pool
  bufCap,    \* capacity of each allocated buffer (0: not allocated)
  bufData,   \* what LoadBlob last wrote into each buffer
  call       \* call[t]: the Read, Release or Attr call thread t is in

fvars == <<node, created, sizes, blobs, pool, bufCap, bufData, call>>

NilBlob == [buf |-> 0, len |-> 0]
NoData == [file |-> 0, chunk |-> 0, n |-> 0]
NoAttr == [Size |-> 0, Blocks |-> 0, BlockSize |-> 0]
NoNode == [Size |-> 0, Content |-> <<>>, Declared |-> 0]
NotCreated ==
  [st |-> "none", err |-> 0, lookups |-> 0, failAt |-> 0, short |-> FALSE, loads |-> <<>>]

ErrNone == "nil"
ErrOffset == "offset greater than files size"
ErrLoad == "LoadBlob failed"
Panic == "panic"

IdleCall ==
  [op |-> "none", file |-> 0, pc |-> "idle", reqOff |-> 0, reqSize |-> 0,
   offset |-> 0, i |-> 0, remaining |-> 0, data |-> <<>>, buf |-> 0, n |-> 0,
   blob |-> NilBlob, err |-> ErrNone, loads |-> 0, exact |-> TRUE,
   puts |-> <<>>, before |-> <<>>, attr |-> NoAttr, poolLen |-> 0]

FInit ==
  /\ node = [f \in Files |-> NoNode]
  /\ created = [f \in Files |-> NotCreated]
  /\ sizes = [f \in Files |-> <<>>]
  /\ blobs = [f \in Files |-> <<>>]
  /\ pool = [b \in BufIds |-> 0]
  /\ bufCap = [b \in BufIds |-> 0]
  /\ bufData = [b \in BufIds |-> NoData]
  /\ call = [t \in Threads |-> IdleCall]

\* a buffer some slice still refers to; the others are garbage
Live(b) ==
  \/ pool[b] > 0
  \/ \E f \in Files : \E i \in 1..Len(blobs[f]) : blobs[f][i].buf = b
  \/ \E t \in Threads : call[t].buf = b \/ call[t].blob.buf = b

\* the garbage collector: memory nothing refers to is reclaimed
Collect(c, d) ==
  /\ bufCap' = [b \in BufIds |-> IF Live(b)' THEN c[b] ELSE 0]
  /\ bufData' = [b \in BufIds |-> IF Live(b)' THEN d[b] ELSE NoData]

Busy(t) == call[t].pc \notin {"idle", "done"}

\* calls on one Virtual File do not overlap
Serialised(t, f) == \A u \in Threads \ {t} : Busy(u) => call[u].file # f

\* ------------------------------------------------------------- newFile
\* repo.LookupBlobSize for the i-th id of the content list: the lookup
\* numbered failAt fails (failAt = 0: none does)
LookupBlobSize(content, failAt, i) ==
  IF i = failAt THEN [size |-> 0, err |-> i] ELSE [size |-> content[i], err |-> 0]

\* (mutant) the loop goes on after a failed lookup and reports the first error
RECURSIVE newFileLoopAll(_, _, _, _, _)
newFileLoopAll(content, failAt, i, szs, bytes) ==
  IF i > Len(content)
  THEN [err |-> IF failAt \in 1..Len(content) THEN failAt ELSE 0,
        sizes |-> IF failAt \in 1..Len(content) THEN <<>> ELSE szs,
        bytes |-> bytes, lookups |-> i - 1]
  ELSE LET r == LookupBlobSize(content, failAt, i)
       IN newFileLoopAll(content, failAt, i + 1, Append(szs, r.size), bytes + r.size)

\* the loop of newFile from index i on: sizes looked up so far in szs, their
\* sum in bytes
RECURSIVE newFileLoop(_, _, _, _, _)
newFileLoop(content, failAt, i, szs, bytes) ==
  IF i > Len(content)
  THEN [err |-> 0, sizes |-> szs, bytes |-> bytes, lookups |-> i - 1]
  ELSE LET r == LookupBlobSize(content, failAt, i)
       IN IF r.err # 0
          THEN [err |-> r.err, sizes |-> <<>>, bytes |-> 0, lookups |-> i]
          ELSE newFileLoop(content, failAt, i + 1, Append(szs, r.size), bytes + r.size)

\* (mutant) the declared size is kept
KeepDeclared(declaredSize, bytes) == declaredSize

\* node.Size after newFile: replaced by the sum when they differ
CorrectedSize(declaredSize, bytes) ==
  IF bytes # declaredSize THEN bytes ELSE declaredSize

newFile(f, content, declaredSize, failAt, short) ==
  LET r == newFileLoop(content, failAt, 1, <<>>, 0)
  IN /\ created[f].st = "none"
     /\ IF r.err # 0
        THEN /\ node' = [node EXCEPT ![f] = [Size |-> declaredSize, Content |-> content,
                                             Declared |-> declaredSize]]
             /\ created' = [created EXCEPT ![f] = [st |-> "err", err |-> r.err,
                                                   lookups |-> r.lookups,
                                                   failAt |-> failAt, short |-> short,
                                                   loads |-> <<>>]]
             /\ UNCHANGED <<sizes, blobs>>
        ELSE /\ node' = [node EXCEPT ![f] = [Size |-> CorrectedSize(declaredSize, r.bytes),
                                             Content |-> content,
                                             Declared |-> declaredSize]]
             /\ created' = [created EXCEPT ![f] = [st |-> "ok", err |-> 0,
                                                   lookups |-> r.lookups,
                                                   failAt |-> failAt, short |-> short,
                                                   loads |-> [k \in 1..Len(content) |-> 0]]]
             /\ sizes' = [sizes EXCEPT ![f] = r.sizes]
             /\ blobs' = [blobs EXCEPT ![f] = [k \in 1..Len(content) |-> NilBlob]]
     /\ UNCHANGED <<pool, bufCap, bufData, call>>

\* the size a Node declares: the sum of its chunks, or one of the stale values
DeclaredSizes(content, stale) == {SumSeq(content)} \cup stale

Create(f, C, stale, shorts) ==
  \E content \in C : \E declaredSize \in DeclaredSizes(content, stale) :
    \E failAt \in 0..Len(content) : \E short \in shorts :
      newFile(f, content, declaredSize, failAt, short)

\* ---------------------------------------------------------------- Attr
AttrSize(f) == node[f].Size

\* (mutant) blocks rounded up
AttrBlocksCeil(f) == (node[f].Size + blockSize - 1) \div blockSize

AttrBlocks(f) == (node[f].Size \div blockSize) + 1

Attr(t, f) ==
  /\ call[t].pc = "idle"
  /\ created[f].st = "ok"
  /\ call' = [call EXCEPT ![t] =
       [IdleCall EXCEPT !.op = "Attr", !.file = f, !.pc = "done",
                        !.attr = [Size |-> AttrSize(f), Blocks |-> AttrBlocks(f),
                                  BlockSize |-> blockSize]]]
  /\ UNCHANGED <<node, created, sizes, blobs, pool, bufCap, bufData>>

\* ---------------------------------------------------------------- Read
\* (mutant) >= in place of >
OffsetNotBelowSize(offset, size) == offset < 0 \/ offset >= size

\* (mutant) the offset compared as the signed number it is
SignedOffsetBeyondSize(offset, size) == offset > size

\* uint64(offset) > f.node.Size for an int64 offset: a negative offset
\* converts to offset + 2^64 >= 2^63, above every size of the model
OffsetBeyondSize(offset, size) == offset < 0 \/ offset > size

\* "Skip blobs before the offset": the residual offset and the (1-based)
\* index of the first chunk to read; indexing past f.sizes panics
RECURSIVE SkipBlobs(_, _, _)
SkipBlobs(sz, offset, startContent) ==
  IF startContent > Len(sz)
  THEN [offset |-> offset, start |-> startContent, panic |-> TRUE]
  ELSE IF offset > sz[startContent]
       THEN SkipBlobs(sz, offset - sz[startContent], startContent + 1)
       ELSE [offset |-> offset, start |-> startContent, panic |-> FALSE]

ReadStart(t, f, off, size, serial) ==
  /\ call[t].pc = "idle"
  /\ created[f].st = "ok"
  /\ serial => Serialised(t, f)
  /\ LET c0 == [IdleCall EXCEPT !.op = "Read", !.file = f, !.reqOff = off,
                                !.reqSize = size]
     IN call' = [call EXCEPT ![t] =
          IF OffsetBeyondSize(off, node[f].Size)
          THEN [c0 EXCEPT !.pc = "done", !.err = ErrOffset]
          ELSE IF node[f].Size = 0
          THEN [c0 EXCEPT !.pc = "done"]
          ELSE LET s == SkipBlobs(sizes[f], off, 1)
               IN IF s.panic
                  THEN [c0 EXCEPT !.pc = "done", !.err = Panic]
                  ELSE [c0 EXCEPT !.pc = "check", !.offset = s.offset, !.i = s.start,
                                  !.remaining = size]]
  /\ UNCHANGED <<node, created, sizes, blobs, pool, bufCap, bufData>>

\* (mutant) the cache is not consulted
CachedNever(f, i) == FALSE

\* getBlobAt's cache check: f.blobs[i] != nil
Cached(f, i) == blobs[f][i] # NilBlob

\* the loop condition of Read and the cache check of getBlobAt
ReadCheck(t) ==
  LET c == call[t]
      f == c.file
  IN /\ c.op = "Read" /\ c.pc = "check"
     /\ call' = [call EXCEPT ![t] =
          IF c.remaining > 0 /\ c.i <= Len(sizes[f])
          THEN IF Cached(f, c.i)
               THEN [c EXCEPT !.pc = "copy", !.blob = blobs[f][c.i],
                              !.exact = c.exact /\ blobs[f][c.i].len = sizes[f][c.i]]
               ELSE [c EXCEPT !.pc = "get"]
          ELSE [c EXCEPT !.pc = "done"]]
     /\ UNCHANGED <<node, created, sizes, blobs, pool, bufCap, bufData>>

\* ----------------------------------------------------------- getBlobAt
LiveIn(b, p) ==
  \/ p[b] > 0
  \/ \E f \in Files : \E i \in 1..Len(blobs[f]) : blobs[f][i].buf = b
  \/ \E t \in Threads : call[t].buf = b \/ call[t].blob.buf = b

\* memory for a new buffer: any memory no slice refers to
FreeIds(p) == {b \in BufIds : ~LiveIn(b, p)}
Least(S) == CHOOSE x \in S : \A y \in S : x <= y

\* sync.Pool.Get: an arbitrary idle buffer, or (the pool may be treated as
\* empty) the result of New, a buffer of defaultBlobSize
PoolGet ==
  {[buf |-> b, pool |-> [pool EXCEPT ![b] = @ - 1], cap |-> bufCap] :
       b \in {x \in BufIds : pool[x] > 0}}
  \cup {[buf |-> b, pool |-> pool, cap |-> [bufCap EXCEPT ![b] = defaultBlobSize]] :
       b \in IF FreeIds(pool) = {} THEN {} ELSE {Least(FreeIds(pool))}}

\* sync.Pool.Put. The pool may drop an idle buffer at any time; here it
\* drops the one put while it already holds MaxIdle
Idles(p) == SumSeq([b \in BufIds |-> p[b]])

PoolPut(p, b) ==
  IF b = 0 \/ Idles(p) >= MaxIdle THEN p ELSE [p EXCEPT ![b] = @ + 1]

\* the bytes of a buffer handed to the pool mean nothing any more
Idle(d, b) == [x \in BufIds |-> IF x = b THEN NoData ELSE d[x]]

\* (mutant) the buffer from the pool is used whatever its length
NeverTooSmall(buflen, size) == FALSE

\* uint(len(buf)) < f.sizes[i]
TooSmall(buflen, size) == buflen < size

\* (mutant) every buffer found too small goes back to the pool
PutBackAlways(buflen) == TRUE

\* len(buf) > defaultBlobSize: a buffer found too small goes back to the pool
PutBackTooSmall(buflen) == buflen > defaultBlobSize

\* length of the buffer make([]byte, f.sizes[i]) allocates
DedicatedLen(size) == size

\* lines 102-110 of getBlobAt for a chunk of the given size
GetBuf(t) ==
  LET c == call[t]
      f == c.file
      size == sizes[f][c.i]
  IN /\ c.op = "Read" /\ c.pc = "get"
     /\ UNCHANGED <<node, created, sizes, blobs>>
     /\ \E g \in PoolGet :
          LET buflen == g.cap[g.buf]
          IN IF TooSmall(buflen, size)
             THEN LET p2 == IF PutBackTooSmall(buflen) THEN PoolPut(g.pool, g.buf)
                            ELSE g.pool
                      free == {b \in FreeIds(p2) : b # g.buf \/ p2[b] = 0}
                  IN /\ free # {}
                     /\ pool' = p2
                     /\ call' = [call EXCEPT ![t] = [c EXCEPT !.pc = "load",
                                                              !.buf = Least(free),
                                                              !.poolLen = buflen]]
                     /\ Collect([g.cap EXCEPT ![Least(free)] = DedicatedLen(size)],
                                [Idle(bufData, g.buf) EXCEPT ![Least(free)] = NoData])
             ELSE /\ pool' = g.pool
                  /\ call' = [call EXCEPT ![t] = [c EXCEPT !.pc = "load", !.buf = g.buf,
                                                           !.poolLen = buflen]]
                  /\ Collect(g.cap, bufData)

\* the byte count repo.LoadBlob returns for a chunk whose looked-up size is
\* size, given a buffer of buflen bytes: the whole chunk, or one byte less
\* from a Blob Source that does not keep to the looked-up size
LoadCount(size, buflen, short) ==
  LET n == IF short /\ size > 0 THEN size - 1 ELSE size
  IN Min(n, buflen)

\* (mutant) a failed Load leaves an empty slice of its buffer in the slot
PartialSlot(slot, buf) == [buf |-> buf, len |-> 0]

\* the cache slot after a Load that failed: getBlobAt returns before it
\* writes f.blobs[i]
FailedSlot(slot, buf) == slot

\* line 112: LoadBlob fails (the buffer is dropped) or fills buf[:n]
LoadBlob(t) ==
  LET c == call[t]
      f == c.file
      size == sizes[f][c.i]
  IN /\ c.op = "Read" /\ c.pc = "load"
     /\ UNCHANGED <<node, sizes, pool>>
     /\ \/ /\ UNCHANGED created
           /\ blobs' = [blobs EXCEPT ![f][c.i] = FailedSlot(@, c.buf)]
           /\ call' = [call EXCEPT ![t] = [c EXCEPT !.pc = "done", !.err = ErrLoad,
                                                    !.buf = 0, !.loads = c.loads + 1,
                                                    !.poolLen = 0,
                                                    !.exact = FALSE]]
           /\ Collect(bufCap, bufData)
        \/ LET n == LoadCount(size, bufCap[c.buf], created[f].short) IN
             /\ created' = [created EXCEPT ![f].loads[c.i] = @ + 1]
             /\ UNCHANGED blobs
             /\ call' = [call EXCEPT ![t] = [c EXCEPT !.pc = "store", !.n = n,
                                                      !.poolLen = 0,
                                                      !.loads = c.loads + 1,
                                                      !.exact = c.exact /\ n = size]]
             /\ Collect(bufCap, [bufData EXCEPT ![c.buf] =
                                   [file |-> f, chunk |-> c.i, n |-> n]])

\* the slice buf[:n] that getBlobAt stores and returns
Trimmed(buf, n) == [buf |-> buf, len |-> n]

\* line 117: f.blobs[i] = buf[:n]
StoreBlob(t) ==
  LET c == call[t]
      f == c.file
  IN /\ c.op = "Read" /\ c.pc = "store"
     /\ UNCHANGED <<node, created, sizes, pool>>
     /\ blobs' = [blobs EXCEPT ![f][c.i] = Trimmed(c.buf, c.n)]
     /\ call' = [call EXCEPT ![t] = [c EXCEPT !.pc = "copy", !.buf = 0, !.n = 0,
                                              !.blob = Trimmed(c.buf, c.n)]]
     /\ Collect(bufCap, bufData)

\* bytes lo..hi-1 of a slice, named by what LoadBlob last wrote there
Segment(blob, lo, hi) ==
  LET d == bufData[blob.buf]
  IN IF hi <= d.n THEN [file |-> d.file, chunk |-> d.chunk, lo |-> lo, hi |-> hi]
     ELSE [file |-> 0, chunk |-> 0, lo |-> lo, hi |-> hi]

\* (mutant) the first chunk is read from its start
SliceFromStart(offset) == 0

\* where the first chunk consulted is read from: blob[offset:len(blob)]
SliceFrom(offset) == IF offset > 0 THEN offset ELSE 0

\* lines 154-163: apply the offset, copy, advance
CopyBlob(t) ==
  LET c == call[t]
      lo == SliceFrom(c.offset)
      copied == Min(c.remaining, c.blob.len - lo)
  IN /\ c.op = "Read" /\ c.pc = "copy"
     /\ UNCHANGED <<node, created, sizes, blobs, pool>>
     /\ call' = [call EXCEPT ![t] =
          IF lo > c.blob.len
          THEN [c EXCEPT !.pc = "done", !.err = Panic, !.blob = NilBlob, !.data = <<>>]
          ELSE [c EXCEPT !.pc = "check", !.offset = 0, !.i = c.i + 1,
                         !.remaining = c.remaining - copied, !.blob = NilBlob,
                         !.data = IF copied > 0
                                  THEN Append(c.data, Segment(c.blob, lo, lo + copied))
                                  ELSE c.data]]
     /\ Collect(bufCap, bufData)

\* ------------------------------------------------------------- Release
CachedBufs(f) ==
  LET held == SelectSeq(blobs[f], LAMBDA s : s # NilBlob)
  IN [k \in 1..Len(held) |-> held[k].buf]

ReleaseStart(t, f, serial) ==
  /\ call[t].pc = "idle"
  /\ created[f].st = "ok"
  /\ serial => Serialised(t, f)
  /\ call' = [call EXCEPT ![t] = [IdleCall EXCEPT !.op = "Release", !.file = f,
                                                  !.pc = "relcheck", !.i = 1,
                                                  !.before = CachedBufs(f)]]
  /\ created' = [created EXCEPT ![f].loads = [k \in 1..Len(@) |-> 0]]
  /\ UNCHANGED <<node, sizes, blobs, pool, bufCap, bufData>>

\* for i := range f.blobs { if f.blobs[i] != nil
ReleaseCheck(t) ==
  LET c == call[t]
      f == c.file
  IN /\ c.op = "Release" /\ c.pc = "relcheck"
     /\ call' = [call EXCEPT ![t] =
          IF c.i > Len(blobs[f]) THEN [c EXCEPT !.pc = "done"]
          ELSE IF blobs[f][c.i] # NilBlob THEN [c EXCEPT !.pc = "relput"]
          ELSE [c EXCEPT !.i = c.i + 1]]
     /\ UNCHANGED <<node, created, sizes, blobs, pool, bufCap, bufData>>

\* blobPool.Put(f.blobs[i])
ReleasePut(t) ==
  LET c == call[t]
      f == c.file
      b == blobs[f][c.i].buf
  IN /\ c.op = "Release" /\ c.pc = "relput"
     /\ pool' = PoolPut(pool, b)
     /\ call' = [call EXCEPT ![t] = [c EXCEPT !.pc = "relclear", !.puts = Append(c.puts, b)]]
     /\ bufData' = Idle(bufData, b)
     /\ UNCHANGED <<node, created, sizes, blobs, bufCap>>

\* (mutant) the slot is not cleared
KeptSlot(slot) == slot

\* the value Release leaves in a slot it has put back
Cleared(slot) == NilBlob

\* f.blobs[i] = nil
ReleaseClear(t) ==
  LET c == call[t]
      f == c.file
  IN /\ c.op = "Release" /\ c.pc = "relclear"
     /\ UNCHANGED <<node, created, sizes, pool>>
     /\ blobs' = [blobs EXCEPT ![f][c.i] = Cleared(@)]
     /\ call' = [call EXCEPT ![t] = [c EXCEPT !.pc = "relcheck", !.i = c.i + 1]]
     /\ Collect(bufCap, bufData)

\* the call has returned to the filesystem layer
Return(t) ==
  /\ call[t].pc = "done"
  /\ call' = [call EXCEPT ![t] = IdleCall]
  /\ UNCHANGED <<node, created, sizes, blobs, pool, bufCap, bufData>>

\* ====================================================== WebDAV backend
\* One call is followed in detail (rq); any number of other calls run
\* beside it, each taking a permit, issuing its request and giving the
\* permit back, and are counted by where they stand (others).
connLimit == 10

VARIABLES
  chanCap,   \* capacity of b.connChan: the permits Open put into it
  connChan,  \* number of permits in b.connChan
  others,    \* other calls holding a permit: hold (client.Do not yet called),
             \* flight (in client.Do), ret (client.Do returned)
  rq,        \* the call followed in detail
  lst        \* the listing of the latest List call: list.Href, the goroutine
             \* sending it (k: index of the next name, st: whether it runs or
             \* has closed ch), the done channel, and the consumer of ch

dvars == <<chanCap, connChan, others, rq, lst>>

Ops == {"Load", "Save", "Stat", "Test", "Remove", "List"}

\* An int64 is written q * 2^63 + r with r small: q = 0 for the numbers near
\* 0, q = -1 (r >= 0) for those near the least int64, q = 1 (r < 0) for
\* those near the greatest. Arithmetic wraps around as Go's does.
I64(r) == [q |-> 0, r |-> r]
MinInt64 == [q |-> -1, r |-> 0]
Wrap64(v) ==
  IF v.q = 1 /\ v.r >= 0 THEN [q |-> -1, r |-> v.r]
  ELSE IF v.q = -1 /\ v.r < 0 THEN [q |-> 1, r |-> v.r]
  ELSE v
Neg64(v) == Wrap64([q |-> -v.q, r |-> -v.r])
Add64(v, w) == Wrap64([q |-> v.q + w.q, r |-> v.r + w.r])
Less64(v, w) == v.q < w.q \/ (v.q = w.q /\ v.r < w.r)

\* offsets handed to Load: beyond, at and within the size counted from the
\* end, from the start, and the two least int64
LoadOffsets == {I64(-7), I64(-5), I64(-3), I64(0), I64(3), MinInt64, Add64(MinInt64, I64(1))}
BufLen == 4
ContentLengths == {-1, 0, 5}

\* multi-status documents: up to MaxEntries response entries, each with its href
Names == {"a", "b"}
Entries == [href : Names]
Docs == SeqsUpTo(Entries, MaxEntries)
NoList ==
  [st |-> "none", doc |-> <<>>, href |-> <<>>, k |-> 0, got |-> <<>>,
   done |-> FALSE, recv |-> FALSE]

NoResp == [terr |-> FALSE, status |-> 0, cl |-> 0, closeErr |-> FALSE, readErr |-> FALSE]
NoInfo == [Size |-> 0]

\* what client.Do / client.Head may return for a request: a transport
\* failure (no response), or a response with a status, a content length,
\* and a body whose Close or read may fail
Responses(req) ==
  {[NoResp EXCEPT !.terr = TRUE]}
  \cup {[terr |-> FALSE, status |-> st, cl |-> cl, closeErr |-> ce, readErr |-> re] :
          st \in (IF req = "HEAD" THEN {200, 404}
                  ELSE IF req = "GET" THEN {200, 206, 404}
                  ELSE IF req = "PUT" THEN {201, 200}
                  ELSE {200, 404}),
          cl \in (IF req = "HEAD" THEN ContentLengths ELSE {0}),
          ce \in (IF req \in {"HEAD", "GET"} THEN BOOLEAN ELSE {FALSE}),
          re \in (IF req \in {"GET", "PROPFIND"} THEN BOOLEAN ELSE {FALSE})}

IdleRq ==
  [op |-> "none", pc |-> "idle", req |-> "none", off |-> I64(0), eff |-> I64(0),
   sent |-> <<>>, newReqErr |-> FALSE,
   resp |-> NoResp, info |-> NoInfo, n |-> 0, ok |-> FALSE, err |-> "nil",
   listing |-> FALSE, valid |-> TRUE]

\* Open with a limit of n: connChan is made with capacity n and filled
OpenWith(n) ==
  /\ chanCap = n
  /\ connChan = n
  /\ others = [hold |-> 0, flight |-> 0, ret |-> 0]
  /\ rq = IdleRq
  /\ lst = NoList

\* Open: connChan filled with connLimit permits
DInit ==
  /\ chanCap = connLimit
  /\ connChan = connLimit
  /\ others = [hold |-> 0, flight |-> 0, ret |-> 0]
  /\ rq = IdleRq
  /\ lst = NoList

\* the request a call issues
Method(op) ==
  IF op = "Load" THEN "GET" ELSE IF op = "Save" THEN "PUT"
  ELSE IF op \in {"Stat", "Test"} THEN "HEAD"
  ELSE IF op = "Remove" THEN "DELETE" ELSE "PROPFIND"

\* a call begins: h.Valid(), for Load the test for a negative offset, and
\* http.NewRequest (List uses the request before it tests the error)
DavStart(op, valid, off, newReqErr) ==
  LET r0 == [IdleRq EXCEPT !.op = op, !.off = off, !.valid = (op = "List" \/ valid)]
  IN /\ rq.pc = "idle"
     /\ rq' =
          IF op # "List" /\ ~valid
          THEN IF op = "Test" THEN [r0 EXCEPT !.pc = "done", !.ok = FALSE]
               ELSE [r0 EXCEPT !.pc = "done", !.err = "invalid handle"]
          ELSE IF op = "Load" /\ Less64(off, I64(0))
          THEN [r0 EXCEPT !.pc = "acquire", !.req = "HEAD", !.newReqErr = newReqErr]
          ELSE IF op \in {"Stat", "Test"}
          THEN [r0 EXCEPT !.pc = "acquire", !.req = "HEAD"]
          ELSE IF newReqErr
          THEN IF op = "List" THEN [r0 EXCEPT !.pc = "done", !.err = "panic"]
               ELSE [r0 EXCEPT !.pc = "done", !.err = "http.NewRequest"]
          ELSE [r0 EXCEPT !.pc = "acquire", !.req = Method(op), !.eff = off]
     /\ UNCHANGED <<connChan, others>>

\* <-b.connChan
TakePermit(n) == n - 1

DavAcquire ==
  /\ rq.pc = "acquire"
  /\ connChan > 0
  /\ connChan' = TakePermit(connChan)
  /\ rq' = [rq EXCEPT !.pc = "do"]
  /\ UNCHANGED others

\* b.client.Do(req) / b.client.Head(...) is called
DavDo ==
  /\ rq.pc = "do"
  /\ rq' = [rq EXCEPT !.pc = "inflight", !.sent = Append(@, rq.req)]
  /\ UNCHANGED <<connChan, others>>

\* ... and returns
DavReturn ==
  /\ rq.pc = "inflight"
  /\ \E resp \in Responses(rq.req) : rq' = [rq EXCEPT !.pc = "release", !.resp = resp]
  /\ UNCHANGED <<connChan, others>>

\* (mutant) the permit is not given back
KeepsPermit(n, resp) == n

\* (mutant) the permit is given back only when the request succeeded
GivePermitOnSuccess(n, resp) == IF resp.terr THEN n ELSE n + 1

\* b.connChan <- struct{}{}, whatever the request returned
GivePermit(n, resp) == n + 1

DavRelease ==
  /\ rq.pc = "release"
  /\ connChan < chanCap
  /\ connChan' = GivePermit(connChan, rq.resp)
  /\ rq' = [rq EXCEPT !.pc = "after"]
  /\ UNCHANGED others

\* (mutant) the content length is not tested
StatResultAnyLength(resp) ==
  IF resp.terr THEN [info |-> NoInfo, err |-> "client.Head"]
  ELSE IF resp.closeErr THEN [info |-> NoInfo, err |-> "Close"]
  ELSE IF resp.status # 200 THEN [info |-> NoInfo, err |-> "unexpected HTTP response code"]
  ELSE [info |-> [Size |-> resp.cl], err |-> "nil"]

\* Stat, from the return of client.Head on
StatResult(resp) ==
  IF resp.terr THEN [info |-> NoInfo, err |-> "client.Head"]
  ELSE IF resp.closeErr THEN [info |-> NoInfo, err |-> "Close"]
  ELSE IF resp.status # 200 THEN [info |-> NoInfo, err |-> "unexpected HTTP response code"]
  ELSE IF resp.cl < 0 THEN [info |-> NoInfo, err |-> "negative content length"]
  ELSE [info |-> [Size |-> resp.cl], err |-> "nil"]

\* (mutant) Test hands on the error of Stat
TestResultPropagates(resp) ==
  [ok |-> StatResult(resp).err = "nil", err |-> StatResult(resp).err]

\* Test: whether Stat worked, never an error
TestResult(resp) == [ok |-> StatResult(resp).err = "nil", err |-> "nil"]

\* Load's "invert offset", in int64 arithmetic: if off < 0 { if -off >
\* info.Size { off = 0 } else { off = info.Size + off } }
ResolveOffset(off, size) ==
  IF Less64(off, I64(0))
  THEN (IF Less64(size, Neg64(off)) THEN I64(0) ELSE Add64(size, off))
  ELSE off

\* Load, from the return of client.Do on; the deferred Close sets the error
\* when there is none yet. io.ReadFull fills p or fails.
LoadResult(resp) ==
  IF resp.terr THEN [n |-> 0, err |-> "client.Do"]
  ELSE IF resp.status # 200 /\ resp.status # 206
  THEN [n |-> 0, err |-> IF resp.closeErr THEN "Close" ELSE "unexpected HTTP response code"]
  ELSE IF resp.readErr THEN [n |-> 0, err |-> "ReadFull"]
  ELSE [n |-> BufLen, err |-> IF resp.closeErr THEN "Close" ELSE "nil"]

SaveResult(resp) ==
  IF resp.terr THEN "client.Post"
  ELSE IF resp.status # 201 THEN "unexpected HTTP response code"
  ELSE IF resp.closeErr THEN "Close" ELSE "nil"

RemoveResult(resp) ==
  IF resp.terr THEN "client.Do"
  ELSE IF resp.status # 200 THEN "blob not removed"
  ELSE IF resp.closeErr THEN "Close" ELSE "nil"

\* List: whether the names are going to be sent (the goroutine is started)
ListResult(resp) == ~resp.terr /\ ~resp.readErr

\* the rest of a Load, Save, Stat, Test or Remove call, after the permit
\* was given back
DavAfter ==
  /\ rq.pc = "after" /\ rq.req # "PROPFIND"
  /\ rq' =
       IF rq.req = "HEAD"
       THEN LET s == StatResult(rq.resp)
            IN IF rq.op = "Stat"
               THEN [rq EXCEPT !.pc = "done", !.info = s.info, !.err = s.err]
               ELSE IF rq.op = "Test"
               THEN [rq EXCEPT !.pc = "done", !.ok = TestResult(rq.resp).ok,
                               !.err = TestResult(rq.resp).err]
               ELSE IF s.err # "nil"
               THEN [rq EXCEPT !.pc = "done", !.err = "Stat", !.info = s.info]
               ELSE IF rq.newReqErr
               THEN [rq EXCEPT !.pc = "done", !.err = "http.NewRequest", !.info = s.info,
                               !.newReqErr = FALSE]
               ELSE [rq EXCEPT !.pc = "acquire", !.req = "GET", !.info = s.info,
                               !.eff = ResolveOffset(rq.off, I64(s.info.Size))]
       ELSE IF rq.req = "GET"
       THEN [rq EXCEPT !.pc = "done", !.n = LoadResult(rq.resp).n,
                       !.err = LoadResult(rq.resp).err]
       ELSE IF rq.req = "PUT"
       THEN [rq EXCEPT !.pc = "done", !.err = SaveResult(rq.resp)]
       ELSE [rq EXCEPT !.pc = "done", !.err = RemoveResult(rq.resp)]
  /\ UNCHANGED <<connChan, others>>

\* xml Decode of the multi-status document into list.Href: the hrefs of its
\* entries, in document order
DecodeHrefs(doc) == [i \in 1..Len(doc) |-> doc[i].href]

\* the rest of a List call: on a transport or decode failure ch is closed at
\* once; otherwise the document is decoded, the goroutine is started and ch
\* is returned. cancelled: done was closed before the call
ListDecode(doc, cancelled) ==
  /\ rq.pc = "after" /\ rq.req = "PROPFIND"
  /\ rq' = [rq EXCEPT !.pc = "done", !.listing = ListResult(rq.resp)]
  /\ lst' = IF ListResult(rq.resp)
            THEN [NoList EXCEPT !.st = "run", !.doc = doc, !.href = DecodeHrefs(doc),
                                !.k = 1, !.done = cancelled]
            ELSE [NoList EXCEPT !.st = "closed", !.done = cancelled]
  /\ UNCHANGED <<connChan, others>>

\* (mutant) the goroutine sends the first name again and again
FirstItem(href, k) == href[1]

\* the m of "for _, m := range list.Href" in round k
RangeItem(href, k) == href[k]

\* the goroutine's select, case ch <- m: ch is unbuffered, so the send
\* happens when the consumer is receiving
ListSend ==
  /\ lst.st = "run" /\ lst.k <= Len(lst.href)
  /\ lst.recv
  /\ lst' = [lst EXCEPT !.got = Append(@, RangeItem(lst.href, lst.k)), !.k = @ + 1,
                        !.recv = FALSE]
  /\ UNCHANGED <<connChan, others, rq>>

\* (mutant) the goroutine does not look at done
DoneIgnored(done) == FALSE

\* whether the select's case <-done can be taken: done is closed
DoneReady(done) == done

\* the goroutine's select, case <-done: return, and the deferred close(ch)
ListCancel ==
  /\ lst.st = "run" /\ lst.k <= Len(lst.href)
  /\ DoneReady(lst.done)
  /\ lst' = [lst EXCEPT !.st = "closed", !.recv = FALSE]
  /\ UNCHANGED <<connChan, others, rq>>

\* the range is exhausted: the goroutine returns, the deferred close(ch)
ListFinish ==
  /\ lst.st = "run" /\ lst.k > Len(lst.href)
  /\ lst' = [lst EXCEPT !.st = "closed", !.recv = FALSE]
  /\ UNCHANGED <<connChan, others, rq>>

\* the caller of List, once it has ch, receives from it
ConsumerReceive ==
  /\ lst.st = "run" /\ ~lst.recv
  /\ ~(rq.op = "List" /\ rq.pc = "done")
  /\ lst' = [lst EXCEPT !.recv = TRUE]
  /\ UNCHANGED <<connChan, others, rq>>

\* the caller of List closes done
ConsumerCancel ==
  /\ lst.st \in {"run", "closed"} /\ ~lst.done
  /\ lst' = [lst EXCEPT !.done = TRUE]
  /\ UNCHANGED <<connChan, others, rq>>

\* the call has returned
DavDone ==
  /\ rq.pc = "done"
  /\ rq' = IdleRq
  /\ UNCHANGED <<connChan, others>>

\* the other calls: <-b.connChan
OtherAcquire ==
  /\ connChan > 0
  /\ connChan' = TakePermit(connChan)
  /\ others' = [others EXCEPT !.hold = @ + 1]
  /\ UNCHANGED rq

OtherDo ==
  /\ others.hold > 0
  /\ others' = [others EXCEPT !.hold = @ - 1, !.flight = @ + 1]
  /\ UNCHANGED <<connChan, rq>>

OtherReturn ==
  /\ others.flight > 0
  /\ others' = [others EXCEPT !.flight = @ - 1, !.ret = @ + 1]
  /\ UNCHANGED <<connChan, rq>>

OtherRelease ==
  /\ others.ret > 0
  /\ connChan < chanCap
  /\ \E terr \in BOOLEAN : connChan' = GivePermit(connChan, [NoResp EXCEPT !.terr = terr])
  /\ others' = [others EXCEPT !.ret = @ - 1]
  /\ UNCHANGED rq

\* ------------------------------------------------------- specifications
\* one Virtual File, its calls one after the other
FileNext ==
  \/ /\ Create(1, Contents, {StaleSize}, BOOLEAN)
     /\ UNCHANGED dvars
  \/ /\ Attr(1, 1)
     /\ UNCHANGED dvars
  \/ /\ \E off \in Offsets : \E size \in Lengths : ReadStart(1, 1, off, size, TRUE)
     /\ UNCHANGED dvars
  \/ /\ ReadCheck(1)
     /\ UNCHANGED dvars
  \/ /\ GetBuf(1)
     /\ UNCHANGED dvars
  \/ /\ LoadBlob(1)
     /\ UNCHANGED dvars
  \/ /\ StoreBlob(1)
     /\ UNCHANGED dvars
  \/ /\ CopyBlob(1)
     /\ UNCHANGED dvars
  \/ /\ ReleaseStart(1, 1, TRUE)
     /\ UNCHANGED dvars
  \/ /\ ReleaseCheck(1)
     /\ UNCHANGED dvars
  \/ /\ ReleasePut(1)
     /\ UNCHANGED dvars
  \/ /\ ReleaseClear(1)
     /\ UNCHANGED dvars
  \/ /\ Return(1)
     /\ UNCHANGED dvars

\* two Virtual Files over the one blobPool; the calls on each file come one
\* after the other (call f is the call on file f), those on different files
\* interleave at every step
SharedNext ==
  \/ /\ \E f \in Files : Create(f, SharedContents(f), {}, {FALSE})
     /\ UNCHANGED dvars
  \/ /\ \E f \in Files : \E off \in SharedOffsets : \E size \in SharedLengths :
           ReadStart(f, f, off, size, TRUE)
     /\ UNCHANGED dvars
  \/ /\ \E f \in Files : ReadCheck(f)
     /\ UNCHANGED dvars
  \/ /\ \E f \in Files : GetBuf(f)
     /\ UNCHANGED dvars
  \/ /\ \E f \in Files : LoadBlob(f)
     /\ UNCHANGED dvars
  \/ /\ \E f \in Files : StoreBlob(f)
     /\ UNCHANGED dvars
  \/ /\ \E f \in Files : CopyBlob(f)
     /\ UNCHANGED dvars
  \/ /\ \E f \in Files : ReleaseStart(f, f, TRUE)
     /\ UNCHANGED dvars
  \/ /\ \E f \in Files : ReleaseCheck(f)
     /\ UNCHANGED dvars
  \/ /\ \E f \in Files : ReleasePut(f)
     /\ UNCHANGED dvars
  \/ /\ \E f \in Files : ReleaseClear(f)
     /\ UNCHANGED dvars
  \/ /\ \E f \in Files : Return(f)
     /\ UNCHANGED dvars

\* the calls on one backend
\* the chunk lists of the file two threads work on at once
RaceContents == SeqsUpTo(SharedChunkSizes, 1) \ {<<>>}

\* one Virtual File whose Read and Release calls, issued by two threads, are
\* not serialised: they interleave at every step
RaceNext ==
  \/ /\ Create(1, RaceContents, {}, {FALSE})
     /\ UNCHANGED dvars
  \/ /\ \E t \in Threads : \E off \in SharedOffsets : \E size \in SharedLengths :
           ReadStart(t, 1, off, size, FALSE)
     /\ UNCHANGED dvars
  \/ /\ \E t \in Threads : ReadCheck(t)
     /\ UNCHANGED dvars
  \/ /\ \E t \in Threads : GetBuf(t)
     /\ UNCHANGED dvars
  \/ /\ \E t \in Threads : LoadBlob(t)
     /\ UNCHANGED dvars
  \/ /\ \E t \in Threads : StoreBlob(t)
     /\ UNCHANGED dvars
  \/ /\ \E t \in Threads : CopyBlob(t)
     /\ UNCHANGED dvars
  \/ /\ \E t \in Threads : ReleaseStart(t, 1, FALSE)
     /\ UNCHANGED dvars
  \/ /\ \E t \in Threads : ReleaseCheck(t)
     /\ UNCHANGED dvars
  \/ /\ \E t \in Threads : ReleasePut(t)
     /\ UNCHANGED dvars
  \/ /\ \E t \in Threads : ReleaseClear(t)
     /\ UNCHANGED dvars
  \/ /\ \E t \in Threads : Return(t)
     /\ UNCHANGED dvars

\* the calls on one backend, each up to its return (the goroutine a List
\* call starts is followed in ListNext)
DavNext ==
  \/ /\ \E op \in Ops : \E valid \in BOOLEAN : \E newReqErr \in BOOLEAN :
          \E off \in (IF op = "Load" THEN LoadOffsets ELSE {I64(0)}) :
            DavStart(op, valid, off, newReqErr)
     /\ UNCHANGED <<fvars, lst, chanCap>>
  \/ /\ DavAcquire
     /\ UNCHANGED <<fvars, lst, chanCap>>
  \/ /\ DavDo
     /\ UNCHANGED <<fvars, lst, chanCap>>
  \/ /\ DavReturn
     /\ UNCHANGED <<fvars, lst, chanCap>>
  \/ /\ DavRelease
     /\ UNCHANGED <<fvars, lst, chanCap>>
  \/ /\ DavAfter
     /\ UNCHANGED <<fvars, lst, chanCap>>
  \/ /\ ListDecode(<<>>, FALSE)
     /\ UNCHANGED <<fvars, chanCap>>
  \/ /\ DavDone
     /\ UNCHANGED <<fvars, lst, chanCap>>
  \/ /\ OtherAcquire
     /\ UNCHANGED <<fvars, lst, chanCap>>
  \/ /\ OtherDo
     /\ UNCHANGED <<fvars, lst, chanCap>>
  \/ /\ OtherReturn
     /\ UNCHANGED <<fvars, lst, chanCap>>
  \/ /\ OtherRelease
     /\ UNCHANGED <<fvars, lst, chanCap>>

\* a List call, the goroutine it starts and the consumer of its channel;
\* the next List call comes when the listing of the last has ended
ListNext ==
  \/ /\ lst.st # "run"
     /\ \E newReqErr \in BOOLEAN : DavStart("List", TRUE, I64(0), newReqErr)
     /\ UNCHANGED <<fvars, lst, chanCap>>
  \/ /\ DavAcquire
     /\ UNCHANGED <<fvars, lst, chanCap>>
  \/ /\ DavDo
     /\ UNCHANGED <<fvars, lst, chanCap>>
  \/ /\ DavReturn
     /\ UNCHANGED <<fvars, lst, chanCap>>
  \/ /\ DavRelease
     /\ UNCHANGED <<fvars, lst, chanCap>>
  \/ /\ \E doc \in Docs : \E cancelled \in BOOLEAN : ListDecode(doc, cancelled)
     /\ UNCHANGED <<fvars, chanCap>>
  \/ /\ DavDone
     /\ UNCHANGED <<fvars, lst, chanCap>>
  \/ /\ ListSend
     /\ UNCHANGED <<fvars, chanCap>>
  \/ /\ ListCancel
     /\ UNCHANGED <<fvars, chanCap>>
  \/ /\ ListFinish
     /\ UNCHANGED <<fvars, chanCap>>
  \/ /\ ConsumerReceive
     /\ UNCHANGED <<fvars, chanCap>>
  \/ /\ ConsumerCancel
     /\ UNCHANGED <<fvars, chanCap>>

vars == <<fvars, dvars>>

Init == FInit /\ DInit

Next == FileNext

Spec == Init /\ [][Next]_vars

NextShared == SharedNext

SpecShared == Init /\ [][NextShared]_vars

NextDav == DavNext

SpecDav == Init /\ [][NextDav]_vars

\* backends opened with a limit of one or two permits
SmallLimits == {1, 2}

InitPermits == FInit /\ \E n \in SmallLimits : OpenWith(n)

\* every request that was issued returns, every call that can go on does,
\* and a call that waits for a permit gets one of those given back: the
\* receivers blocked on a channel are served in the order they came
PermitsFairness ==
  /\ SF_vars(DavAcquire /\ UNCHANGED <<fvars, lst, chanCap>>)
  /\ WF_vars(DavDo /\ UNCHANGED <<fvars, lst, chanCap>>)
  /\ WF_vars(DavReturn /\ UNCHANGED <<fvars, lst, chanCap>>)
  /\ WF_vars(DavRelease /\ UNCHANGED <<fvars, lst, chanCap>>)
  /\ WF_vars(DavAfter /\ UNCHANGED <<fvars, lst, chanCap>>)
  /\ WF_vars(ListDecode(<<>>, FALSE) /\ UNCHANGED <<fvars, chanCap>>)
  /\ WF_vars(OtherDo /\ UNCHANGED <<fvars, lst, chanCap>>)
  /\ WF_vars(OtherReturn /\ UNCHANGED <<fvars, lst, chanCap>>)
  /\ WF_vars(OtherRelease /\ UNCHANGED <<fvars, lst, chanCap>>)

SpecPermits == InitPermits /\ [][NextDav]_vars /\ PermitsFairness

NextRace == RaceNext

SpecRace == Init /\ [][NextRace]_vars

NextList == ListNext

SpecList == Init /\ [][NextList]_vars

\* the goroutine is scheduled: a select with a case that stays ready is
\* taken, and a goroutine that can return does
SpecListFair ==
  /\ Init /\ [][NextList]_vars
  /\ WF_vars(ListCancel /\ UNCHANGED <<fvars, chanCap>>)
  /\ WF_vars(ListFinish /\ UNCHANGED <<fvars, chanCap>>)

\* =============================================================== claims
ReadDone(t) == call[t].op = "Read" /\ call[t].pc = "done"
ReleaseDone(t) == call[t].op = "Release" /\ call[t].pc = "done"
AttrDone(t) == call[t].op = "Attr" /\ call[t].pc = "done"

Max(a, b) == IF a > b THEN a ELSE b

\* number of bytes in a sequence of segments
RECURSIVE DataLen(_)
DataLen(d) == IF d = <<>> THEN 0 ELSE (d[1].hi - d[1].lo) + DataLen(Tail(d))

\* bytes [off, off + m) of the concatenation of the chunks of file f, whose
\* sizes are sz: for each chunk the part of it that lies in that range
SliceOfConcat(f, sz, off, m) ==
  LET start(i) == SumSeq(SubSeq(sz, 1, i - 1))
      part(i) == [file |-> f, chunk |-> i,
                  lo |-> Max(off, start(i)) - start(i),
                  hi |-> Min(off + m, start(i) + sz[i]) - start(i)]
  IN SelectSeq([i \in 1..Len(sz) |-> part(i)], LAMBDA g : g.lo < g.hi)

\* the Read's Blob Source kept to the looked-up sizes and every Load worked
SourceExact(t) == ~created[call[t].file].short /\ call[t].err # ErrLoad

\* C1: a Read at an offset in [0, size] of a file whose Blob Source returns
\* each chunk in full succeeds and returns exactly min(length, size - offset)
\* bytes: bytes [offset, offset + that) of the chunks concatenated in order.
C1_ReadReturnsSlice ==
  \A t \in Threads :
    LET c == call[t]
        f == c.file
        m == Min(c.reqSize, node[f].Size - c.reqOff)
    IN (ReadDone(t) /\ 0 <= c.reqOff /\ c.reqOff <= node[f].Size /\ SourceExact(t))
         => /\ c.err = ErrNone
            /\ DataLen(c.data) = m
            /\ c.data = SliceOfConcat(f, node[f].Content, c.reqOff, m)

\* chunks of 100 and 50 bytes, Read(90, 30): the last 10 bytes of the first
\* chunk, then the first 20 of the second
C1_Witness ==
  /\ ReadDone(1) /\ node[1].Content = <<100, 50>>
  /\ call[1].reqOff = 90 /\ call[1].reqSize = 30 /\ call[1].err = ErrNone
  /\ call[1].data = <<[file |-> 1, chunk |-> 1, lo |-> 90, hi |-> 100],
                      [file |-> 1, chunk |-> 2, lo |-> 0, hi |-> 20]>>

\* C2 as stated: a Read beyond the size fails with the offset error without a
\* Load; a Read at the size of a non-empty file succeeds with zero bytes.
C2_AsStated ==
  \A t \in Threads :
    LET c == call[t]
        size == node[c.file].Size
    IN ReadDone(t) =>
         /\ c.reqOff > size => (c.err = ErrOffset /\ c.loads = 0 /\ c.data = <<>>)
         /\ (c.reqOff = size /\ size > 0) => (c.err = ErrNone /\ c.data = <<>>)

\* a Read that starts beyond the size returns in that one step, with the
\* offset error, leaving cache and pool as they were
RejectsBeyondSize ==
  \A t \in Threads :
    (call[t].pc = "idle" /\ call'[t].op = "Read"
       /\ call'[t].reqOff > node[call'[t].file].Size)
      => /\ call'[t].pc = "done" /\ call'[t].err = ErrOffset /\ call'[t].loads = 0
         /\ UNCHANGED <<blobs, pool, bufCap>>

\* C2 (amended): a Read beyond the size fails with the offset error, calls
\* the Blob Source zero times and leaves cache and pool unchanged; a Read at
\* the size of a non-empty file never fails with the offset error, returns
\* zero bytes, and succeeds when the Load it issues returns the chunk in full.
C2_OffsetCheck ==
  /\ [](\A t \in Threads :
         LET c == call[t]
             size == node[c.file].Size
         IN ReadDone(t) =>
              /\ c.reqOff > size => (c.err = ErrOffset /\ c.loads = 0 /\ c.data = <<>>)
              /\ (c.reqOff = size /\ size > 0) =>
                    /\ c.err # ErrOffset
                    /\ c.data = <<>>
                    /\ SourceExact(t) => c.err = ErrNone)
  /\ [][RejectsBeyondSize]_vars

\* a Read at offset 151 of a 150-byte file with a chunk cached was rejected;
\* a Read at offset 150 of it returned nothing
C2_Witness ==
  /\ ReadDone(1) /\ node[1].Size = 150 /\ blobs[1][1] # NilBlob
  /\ \/ call[1].reqOff = 151 /\ call[1].err = ErrOffset
     \/ call[1].reqOff = 150 /\ call[1].reqSize = 30 /\ call[1].err = ErrNone
        /\ call[1].loads = 1

C4_SizeIsSum ==
  \A f \in Files :
    created[f].st = "ok" =>
      /\ sizes[f] = node[f].Content
      /\ node[f].Size = SumSeq(node[f].Content)
      /\ \A t \in Threads :
           (AttrDone(t) /\ call[t].file = f)
             => call[t].attr.Size = SumSeq(node[f].Content)

\* declared 200, chunks of 100 and 50: Attributes reports 150, here after a
\* Read and a Release (a buffer is idle in the pool)
C4_Witness ==
  /\ AttrDone(1) /\ node[1].Declared = 200 /\ node[1].Content = <<100, 50>>
  /\ call[1].attr.Size = 150
  /\ \E b \in BufIds : pool[b] > 0

\* C5: when a size lookup fails, Create returns that lookup's error and no
\* Virtual File, has issued no lookup after the failing one, and the Node
\* still has the size it declared.
C5_CreateFails ==
  \A f \in Files :
    /\ created[f].st = "err" <=> created[f].failAt # 0
    /\ created[f].st = "err" =>
         /\ created[f].err = LookupBlobSize(node[f].Content, created[f].failAt,
                                            created[f].failAt).err
         /\ created[f].lookups = created[f].failAt
         /\ sizes[f] = <<>> /\ blobs[f] = <<>>
         /\ node[f].Size = node[f].Declared
         /\ \A t \in Threads : call[t].file # f

\* the second lookup fails after the first returned 100 for a Node that
\* declares 200
C5_Witness ==
  /\ created[1].st = "err" /\ created[1].failAt = 2
  /\ node[1].Content[1] = 100 /\ node[1].Declared = 200 /\ node[1].Size = 200

\* how often b occurs in a sequence of buffers
Count(q, b) == Cardinality({k \in 1..Len(q) : q[k] = b})

\* a Release that found nothing cached touches neither cache nor pool
EmptyReleaseChangesNothing ==
  \A t \in Threads :
    (call[t].op = "Release" /\ call[t].before = <<>> /\ Busy(t))
      => UNCHANGED <<blobs, pool, bufCap>>

\* C6: when Release has returned every cache slot is empty, each buffer
\* cached just before it was handed to the pool exactly once (and no other
\* was), and it reports no error; a Release that starts with an empty cache
\* changes neither cache nor pool.
C6_Release ==
  /\ [](\A t \in Threads :
         ReleaseDone(t) =>
           /\ \A i \in 1..Len(blobs[call[t].file]) : blobs[call[t].file][i] = NilBlob
           /\ \A b \in BufIds : Count(call[t].puts, b) = Count(call[t].before, b)
           /\ \A k \in 1..Len(call[t].puts) : call[t].puts[k] \in BufIds
           /\ call[t].err = ErrNone)
  /\ [][EmptyReleaseChangesNothing]_vars

\* a Release that found both chunks cached
C6_Witness ==
  /\ ReleaseDone(1) /\ Len(call[1].puts) = 2 /\ call[1].puts[1] # call[1].puts[2]

\* the cache slots a buffer is attached to
SlotsOf(b) == {s \in Files \X (1..MaxChunks) :
                 s[2] <= Len(blobs[s[1]]) /\ blobs[s[1]][s[2]].buf = b}

\* C7: with the calls on each file serialised and those on different files
\* interleaved, in every state no buffer is idle in the pool and attached to
\* a cache slot, none is attached to two cache slots, none is in the pool
\* twice.
C7_SingleOwner ==
  \A b \in BufIds :
    /\ ~(pool[b] > 0 /\ SlotsOf(b) # {})
    /\ Cardinality(SlotsOf(b)) <= 1
    /\ pool[b] <= 1

\* C8: Attributes reports block size 512 and floor(size / 512) + 1 blocks:
\* 1 for size 0, 2 for 512, 3 for 1024; never 0, and one more than
\* ceil(size / 512) exactly when the size is a multiple of 512.
C8_Blocks ==
  \A t \in Threads :
    AttrDone(t) =>
      LET a == call[t].attr
          ceil == (a.Size + 511) \div 512
      IN /\ a.BlockSize = 512
         /\ a.Blocks >= 1
         /\ (a.Blocks - 1) * 512 <= a.Size /\ a.Size < a.Blocks * 512
         /\ a.Size = 0 => a.Blocks = 1
         /\ a.Size = 512 => a.Blocks = 2
         /\ a.Size = 1024 => a.Blocks = 3
         /\ a.Blocks - ceil = (IF a.Size % 512 = 0 THEN 1 ELSE 0)

C8_Witness ==
  /\ AttrDone(1) /\ call[1].attr.Size = 1024 /\ call[1].attr.Blocks = 3

\* requests issued and not yet returned
InFlight == others.flight + (IF rq.pc = "inflight" THEN 1 ELSE 0)

\* permits taken and not yet given back: a call holds one from <-b.connChan
\* to b.connChan <- struct{}{}
Held ==
  others.hold + others.flight + others.ret
    + (IF rq.pc \in {"do", "inflight", "release"} THEN 1 ELSE 0)

\* C9 as stated: at most 10 requests are in flight, idle permits plus
\* requests in flight is 10, and all permits are idle when none is in flight.
C9_AsStated ==
  /\ InFlight <= 10
  /\ connChan + InFlight = 10
  /\ InFlight = 0 => connChan = 10

\* C9 (amended): at most 10 requests are in flight and idle permits plus
\* permits held is 10, a call holding its permit from just before it issues
\* its request until just after the request has returned - on success and on
\* transport failure alike, and no longer while it reads or closes the body;
\* all 10 permits are idle whenever no call holds one.
C9_Permits ==
  /\ InFlight <= Held /\ Held <= 10
  /\ connChan + Held = 10
  /\ connChan >= 0
  /\ Held = 0 => connChan = 10

\* all permits are out, every request is in flight, and the call waits
C9_Witness ==
  /\ connChan = 0 /\ InFlight = 10 /\ rq.pc = "acquire"

\* every permit is back after a request of the call failed in transport
C9_WitnessFailure ==
  /\ connChan = 10 /\ rq.pc = "after" /\ rq.resp.terr

StatDone == rq.op = "Stat" /\ rq.pc = "done"

\* C10: Stat succeeds only on status 200 with a content length >= 0 and
\* then reports that length as the size; status 200 with content length -1
\* gives an error and an empty FileInfo, no crash; any other status gives an
\* error.
C10_Stat ==
  StatDone =>
    /\ rq.err # "panic"
    /\ rq.err = "nil" =>
         (~rq.resp.terr /\ rq.resp.status = 200 /\ rq.resp.cl >= 0
            /\ rq.info.Size = rq.resp.cl)
    /\ (rq.resp.status = 200 /\ rq.resp.cl = -1) => (rq.err # "nil" /\ rq.info = NoInfo)
    /\ rq.resp.status # 200 => (rq.err # "nil" /\ rq.info = NoInfo)

\* the HEAD response had status 200 and content length -1
C10_Witness ==
  /\ StatDone /\ rq.resp.status = 200 /\ rq.resp.cl = -1 /\ ~rq.resp.closeErr
  /\ rq.err = "negative content length" /\ rq.info = NoInfo

\* a Stat that succeeded with a size of 5
C10_WitnessOk ==
  /\ StatDone /\ rq.err = "nil" /\ rq.info.Size = 5

TestDone == rq.op = "Test" /\ rq.pc = "done"

\* C11: Test never returns an error; it returns true exactly when the Stat
\* of the handle succeeds (valid handle, a response, its body closed, status
\* 200, content length >= 0) and false for every failure of that Stat.
C11_Test ==
  TestDone =>
    /\ rq.err = "nil"
    /\ rq.ok <=> (/\ rq.valid /\ ~rq.resp.terr /\ ~rq.resp.closeErr
                  /\ rq.resp.status = 200 /\ rq.resp.cl >= 0)

\* Test answered false, without an error, on a status 200 with content
\* length -1
C11_Witness ==
  /\ TestDone /\ rq.valid /\ rq.resp.status = 200 /\ rq.resp.cl = -1
  /\ ~rq.resp.closeErr /\ ~rq.ok /\ rq.err = "nil"

\* Test answered true
C11_WitnessTrue ==
  /\ TestDone /\ rq.ok /\ rq.resp.cl = 5

\* the names of a document's entries, in document order
NamesOf(doc) == [i \in 1..Len(doc) |-> doc[i].href]

IsPrefix(p, q) == Len(p) <= Len(q) /\ p = SubSeq(q, 1, Len(p))

C12_WitnessCancel ==
  /\ lst.st = "closed" /\ lst.done /\ Len(lst.doc) = 2 /\ lst.got = <<"a">>

\* the Load call has built its GET request
LoadGetBuilt == rq.op = "Load" /\ rq.req = "GET"

\* the requests the call has issued so far
Issued(method) == \E k \in 1..Len(rq.sent) : rq.sent[k] = method

\* size + offset when -offset <= size, 0 when -offset > size, for a
\* negative int64 offset and a size >= 0, in unbounded arithmetic
FromEnd(off, size) ==
  IF off.q < 0 \/ -off.r > size THEN I64(0) ELSE I64(size + off.r)

\* the Stat of this Load has failed
LoadStatFailed ==
  /\ rq.op = "Load" /\ rq.req = "HEAD" /\ rq.pc = "done"
  /\ StatResult(rq.resp).err # "nil"

\* C13: Load with a negative offset first gets the size with Stat and reads
\* from size + offset when -offset <= size and from 0 when -offset > size, so
\* from an offset in [0, size]; if that Stat fails Load fails without
\* issuing the GET; an offset >= 0 is used unchanged and causes no Stat.
C13_AsStated ==
  /\ (LoadGetBuilt /\ Less64(rq.off, I64(0))) =>
       /\ rq.sent[1] = "HEAD"
       /\ rq.eff = FromEnd(rq.off, rq.info.Size)
       /\ ~Less64(rq.eff, I64(0)) /\ ~Less64(I64(rq.info.Size), rq.eff)
  /\ LoadStatFailed => (rq.err = "Stat" /\ ~Issued("GET"))
  /\ (LoadGetBuilt /\ ~Less64(rq.off, I64(0))) => (~Issued("HEAD") /\ rq.eff = rq.off)

\* the same for every negative offset but the least int64
C13_ButLeast ==
  /\ (LoadGetBuilt /\ Less64(rq.off, I64(0)) /\ rq.off # MinInt64) =>
       /\ rq.sent[1] = "HEAD"
       /\ rq.eff = FromEnd(rq.off, rq.info.Size)
       /\ ~Less64(rq.eff, I64(0)) /\ ~Less64(I64(rq.info.Size), rq.eff)
  /\ LoadStatFailed => (rq.err = "Stat" /\ ~Issued("GET"))
  /\ (LoadGetBuilt /\ ~Less64(rq.off, I64(0))) => (~Issued("HEAD") /\ rq.eff = rq.off)

\* an offset of -3 on an object of 5 bytes was resolved to 2
C13_Resolved ==
  /\ LoadGetBuilt /\ rq.off = I64(-3) /\ rq.info.Size = 5 /\ rq.eff = I64(2)
  /\ rq.sent = <<"HEAD", "GET">>

\* a cached chunk stays as it is - the slot, and the bytes of its buffer -
\* through every step that is not a step of a Release of its file
CacheKept ==
  \A f \in Files : \A i \in 1..Len(blobs[f]) :
    (/\ blobs[f][i] # NilBlob
     /\ \A t \in Threads : ~(call[t].op = "Release" /\ call[t].file = f)
     /\ \A t \in Threads : ~(call'[t].op = "Release" /\ call'[t].file = f))
      => /\ blobs'[f][i] = blobs[f][i]
         /\ bufData'[blobs[f][i].buf] = bufData[blobs[f][i].buf]

\* C14: with the calls on one Virtual File serialised, between Create and
\* the next Release the Blob Source completes at most one Load per chunk: a
\* chunk that is cached is never being loaded, a Read of cached chunks alone
\* issues no Load, and the cached bytes stay as they are until Release.
C14_CacheOnce ==
  /\ [](\A f \in Files : \A i \in 1..Len(created[f].loads) :
          /\ created[f].loads[i] <= 1
          /\ created[f].loads[i] = 1 =>
               \/ blobs[f][i] # NilBlob
               \/ \E t \in Threads : call[t].file = f /\ call[t].op \in {"Read", "Release"}
                                       /\ call[t].i = i)
  /\ [](\A t \in Threads :
          (call[t].op = "Read" /\ call[t].pc \in {"get", "load", "store"})
            => blobs[call[t].file][call[t].i] = NilBlob)
  /\ [][CacheKept]_vars

\* a second Read over both chunks, both cached by the first: no Load
C14_Witness ==
  /\ ReadDone(1) /\ created[1].loads = <<1, 1>> /\ call[1].loads = 0
  /\ Len(call[1].data) = 2 /\ call[1].err = ErrNone

\* the step in which a Load fails ends the Read: one Load more was issued,
\* none is retried, the cache is as it was
FailedLoadEndsRead ==
  \A t \in Threads :
    (call[t].op = "Read" /\ call[t].pc = "load" /\ call'[t].err = ErrLoad)
      => /\ call'[t].pc = "done"
         /\ call'[t].loads = call[t].loads + 1 /\ call'[t].i = call[t].i
         /\ blobs' = blobs /\ pool' = pool

\* a Read that comes to a chunk whose slot is empty goes on to load it
EmptySlotIsLoaded ==
  \A t \in Threads :
    LET c == call[t]
    IN (/\ c.op = "Read" /\ c.pc = "check" /\ call'[t] # c
        /\ c.remaining > 0 /\ c.i <= Len(sizes[c.file])
        /\ blobs[c.file][c.i] = NilBlob)
         => call'[t].pc = "get"

\* C15: a Load that fails for chunk i ends the Read at once with the Load's
\* error, no retry and no Load of a later chunk; slot i stays empty and the
\* slots filled before stay filled; a later Read that needs chunk i finds
\* the slot empty and issues the Load again.
C15_LoadFails ==
  /\ [](\A t \in Threads :
          (ReadDone(t) /\ call[t].err = ErrLoad)
            => /\ blobs[call[t].file][call[t].i] = NilBlob
               /\ call[t].loads >= 1
               /\ \A k \in 1..Len(blobs[call[t].file]) :
                    k > call[t].i => created[call[t].file].loads[k] = 0
                                      \/ blobs[call[t].file][k] # NilBlob)
  /\ [][FailedLoadEndsRead]_vars
  /\ [][EmptySlotIsLoaded]_vars

\* the Load of the second chunk failed after the same Read had loaded the
\* first
C15_Witness ==
  /\ ReadDone(1) /\ call[1].err = ErrLoad /\ call[1].i = 2 /\ call[1].loads = 2
  /\ blobs[1][1] # NilBlob /\ blobs[1][2] = NilBlob

\* C16: whenever getBlobAt is about to call LoadBlob for chunk i, the buffer
\* it passes is at least as long as the size looked up for chunk i: the
\* buffer the pool handed out, at its full capacity, when that is enough,
\* and otherwise a new buffer of exactly the chunk's size.
C16_BufferFits ==
  \A t \in Threads :
    LET c == call[t]
        size == sizes[c.file][c.i]
    IN (c.op = "Read" /\ c.pc = "load")
         => /\ bufCap[c.buf] >= size
            /\ c.poolLen >= size => bufCap[c.buf] = c.poolLen
            /\ c.poolLen < size => bufCap[c.buf] = size

\* the pool handed out a buffer of 128 KiB for a chunk of 128 KiB + 1
C16_Witness ==
  /\ call[1].op = "Read" /\ call[1].pc = "load"
  /\ sizes[1][call[1].i] = defaultBlobSize + 1
  /\ call[1].poolLen = defaultBlobSize
  /\ bufCap[call[1].buf] = defaultBlobSize + 1

\* the pool handed out a buffer of 128 KiB + 2 for a chunk of 50 bytes
C16_WitnessPooled ==
  /\ call[1].op = "Read" /\ call[1].pc = "load"
  /\ sizes[1][call[1].i] = 50
  /\ call[1].poolLen = defaultBlobSize + 2
  /\ bufCap[call[1].buf] = defaultBlobSize + 2

\* a Read in progress that uses buffer b
ReadUses(t, b) == call[t].op = "Read" /\ (call[t].buf = b \/ call[t].blob.buf = b)

\* thread t is in getBlobAt loading chunk i of file f
Loading(t, f, i) ==
  /\ call[t].op = "Read" /\ call[t].file = f /\ call[t].i = i
  /\ call[t].pc \in {"get", "load", "store"}

\* no buffer is in the pool twice
C17_NoDoublePut == \A b \in BufIds : pool[b] <= 1

\* no buffer is idle in the pool while a slot or a Read uses it
C17_NoIdleInUse ==
  \A b \in BufIds :
    pool[b] > 0 => (SlotsOf(b) = {} /\ \A t \in Threads : ~ReadUses(t, b))

\* no chunk is being loaded by two Reads at once
C17_NoDoubleLoad ==
  \A f \in Files : \A i \in 1..MaxChunks : \A t \in Threads : \A u \in Threads :
    (Loading(t, f, i) /\ Loading(u, f, i)) => t = u

\* C17: with Read and Release calls on the same Virtual File interleaving at
\* the steps of getBlobAt and of Release, no buffer is put into the pool
\* twice, none is idle in the pool while a cache slot or a Read in progress
\* uses it, and no chunk is loaded by two Reads at once.
C17_SameFile ==
  /\ C17_NoDoublePut
  /\ C17_NoIdleInUse
  /\ C17_NoDoubleLoad

\* C18: once done is closed, or once the consumer has received every name,
\* the goroutine of List eventually returns and closes the channel, even if
\* the consumer never receives again: it does not stay blocked on a send.
C18_ListEnds ==
  (lst.st = "run" /\ (lst.done \/ Len(lst.got) = Len(lst.href))) ~> (lst.st = "closed")

\* the channel was closed after done was, with two names never received
C18_Witness ==
  /\ lst.st = "closed" /\ lst.done /\ Len(lst.href) = 2 /\ lst.got = <<>>
  /\ lst.k = 1

\* permits held by the other calls
OthersHeld == others.hold + others.flight + others.ret

\* a call that waits for a permit holds none
WaitsWithoutPermit == rq.pc = "acquire" => connChan + OthersHeld = chanCap

\* C19: a call that waits for a permit holds none - Load with a negative
\* offset has given back the permit of its Stat before it waits for the one
\* of its GET - so, every issued request returning, every call completes,
\* whatever the number of callers and also with a limit of one permit.
C19_NoDeadlock ==
  /\ []WaitsWithoutPermit
  /\ (rq.pc # "idle") ~> (rq.pc = "done")

\* with a limit of one permit, a Load with a negative offset waits for the
\* permit of its GET, its Stat done, while another call holds the permit
C19_Witness ==
  /\ chanCap = 1 /\ connChan = 0 /\ OthersHeld = 1
  /\ rq.op = "Load" /\ rq.req = "GET" /\ rq.pc = "acquire" /\ rq.sent = <<"HEAD">>

\* the step of getBlobAt that finds the buffer from the pool too small: a
\* buffer of the default capacity (or less) is dropped, no buffer joins the
\* pool; a larger one is back in the pool after the step
TooSmallPutBack ==
  \A t \in Threads :
    LET c == call'[t]
    IN (/\ call[t].op = "Read" /\ call[t].pc = "get" /\ c.pc = "load"
        /\ c.poolLen < sizes[c.file][c.i])
         => /\ c.poolLen <= defaultBlobSize => \A b \in BufIds : pool'[b] <= pool[b]
            /\ c.poolLen > defaultBlobSize =>
                 \E b \in BufIds : pool'[b] > 0 /\ bufCap'[b] = c.poolLen

\* Release hands the pool the buffer of the slot with its whole capacity
ReleasePutsWhole ==
  \A t \in Threads :
    (call[t].op = "Release" /\ call[t].pc = "relput" /\ call'[t].pc = "relclear")
      => \A b \in BufIds : pool'[b] > pool[b] =>
           (bufCap'[b] = bufCap[b] /\ bufCap[b] >= sizes[call[t].file][call[t].i])

\* C20: every buffer idle in the pool has a capacity of at least 128 KiB; a
\* buffer of the default capacity found too small for a chunk is dropped, a
\* too-small one is put back only when its capacity exceeds the default, and
\* Release puts back each cached chunk's buffer with its whole capacity,
\* the dedicated oversized ones too.
C20_PoolCapacity ==
  /\ [](\A b \in BufIds : pool[b] > 0 => bufCap[b] >= defaultBlobSize)
  /\ [][TooSmallPutBack]_vars
  /\ [][ReleasePutsWhole]_vars

\* a buffer of 128 KiB + 1, dedicated to a chunk of the first file and put
\* into the pool by its Release, was found too small for the chunk of
\* 128 KiB + 2 of the second file and is back in the pool
C20_Witness ==
  /\ call[2].op = "Read" /\ call[2].pc = "load"
  /\ call[2].poolLen = defaultBlobSize + 1
  /\ bufCap[call[2].buf] = defaultBlobSize + 2
  /\ \E b \in BufIds : pool[b] > 0 /\ bufCap[b] = defaultBlobSize + 1

====
